---- MODULE Spec2Model ----
(***************************************************************************)
(* Model of v1.go: the OAuth2 callback handlers, the credential file, and  *)
(* the subscriber-count polling loop with its chat notifier.               *)
(*                                                                         *)
(* A credential is a record [k, id]: k = "nil" is the nil pointer, "zero"  *)
(* is the &oauth2.Token{} that loadToken returns when Decode fails, "tok"  *)
(* is a token issued by the identity provider (id distinguishes issues).   *)
(* The file token.json is a record of the same shape: k = "absent",        *)
(* "empty" (just truncated by os.Create), "junk" (unparsable) or "tok".    *)
(***************************************************************************)
EXTENDS Integers, Sequences, FiniteSets, TLC

\* ---- bounds -----------------------------------------------------------
\* credentials the identity provider issues in one run; largest count fetched
MaxTok == 3
MaxCount == 1

\* ---- program constants ------------------------------------------------
DefaultSleep == 60
state == "randomstatestring"

\* the callback requests the server can hold, and those Spec lets run
Handlers == {"h1", "h2"}
Serving == {"h1"}
ChatIDs == <<"c1", "c2">>
SleepTimes == {-5, 0, 5}
\* the fields of Config other than sleep_time, and those init() tests
Fields == {"ClientID", "ClientSecret", "RedirectURL", "WebhookURL", "ChannelID",
           "BotKey", "ChatIDs"}
CheckedFields == {"ClientID", "ClientSecret", "RedirectURL", "WebhookURL",
                  "ChannelID"}
SendResults == {"ok", "reqErr", "doErr"}
StateParams == {"randomstatestring", "forged"}
Counts == 0..MaxCount

Nil == [k |-> "nil", id |-> 0]
ZeroTok == [k |-> "zero", id |-> 0]
Tok(n) == [k |-> "tok", id |-> n]
Absent == [k |-> "absent", id |-> 0]
Truncated == [k |-> "empty", id |-> 0]
Junk == [k |-> "junk", id |-> 0]

VARIABLES
    alive,              \* FALSE once log.Fatalf has ended the process
    config,             \* the decoded config.yaml: sleep_time, and the fields set
    token,              \* var token *oauth2.Token
    tokenMutex,         \* "free" or the holder: "poll" or a handler
    latestCount,        \* var latestCount uint64
    latestCountMutex,   \* "free" or "poll"
    file,               \* contents of token.json
    nextId,             \* number of credentials the provider has issued
    expired,            \* ids of the credentials in use whose Expiry is before time.Now()
    pc,                 \* position of monitorSubscriberCount
    sleepTime,          \* its local sleepTime
    client,             \* credential captured by oauthConfig.Client
    subscriberCount,    \* its local subscriberCount
    cpc,                \* position of each handleOAuth2Callback request
    creq,               \* the request's state query parameter
    ctok,               \* the request's local tok
    resp,               \* HTTP status written (0 = none yet)
    tick,               \* what the current iteration of the loop has done
    hist                \* what earlier iterations did

prog == <<alive, config, token, tokenMutex, latestCount, latestCountMutex, file,
          nextId, expired>>
loop == <<pc, sleepTime, client, subscriberCount>>
hand == <<cpc, creq, ctok, resp>>
vars == <<prog, loop, hand, tick, hist>>

\* ---- pure helpers -----------------------------------------------------

\* token.Expiry.Before(time.Now()); the zero Expiry is before every time
Expired(t) == t.k = "zero" \/ (t.k = "tok" /\ t.id \in expired)

\* loadToken: nil on a missing file, otherwise the (possibly undecoded) tok
loadToken(f) ==
    IF f.k = "absent" THEN Nil
    ELSE IF f.k = "tok" THEN f
    ELSE ZeroTok

\* the interval computed before the loop
EffectiveSleep(s) == IF s = 0 THEN DefaultSleep ELSE s

\* time.Sleep returns at once for a zero or negative duration
Slept(d) == IF d > 0 THEN d ELSE 0

\* a handler that accepts any state parameter
StateMismatchNever(s) == FALSE

\* r.URL.Query().Get("state") != state
StateMismatch(s) == s # state

\* a loop that never finds the credential expired
NeedsRefreshNever(t) == FALSE

\* token.Expiry.Before(time.Now()) in the loop
NeedsRefresh(t) == Expired(t)

\* a comparison that takes every fetched count for a change
DiffersAlways(c, last) == TRUE

\* subscriberCount != latestCount
Differs(c, last) == c # last

\* The chat ids whose iteration of sendTelegramNotification's loop runs, given
\* the result of each chat id's send: the first error returns from the function.
RECURSIVE SendFrom(_, _)
SendFrom(i, outs) ==
    IF i > Len(ChatIDs) THEN <<>>
    ELSE IF outs[i] \in {"reqErr", "doErr"} THEN <<ChatIDs[i]>>
    ELSE <<ChatIDs[i]>> \o SendFrom(i + 1, outs)

sendTelegramNotification(outs) == SendFrom(1, outs)

\* The POSTs sendWebhookNotification makes: one, carrying the count
sendWebhookNotification(c) == <<c>>

\* The results the sends of one notification can have: the request URL is
\* the same for every chat id, so http.NewRequest fails for all or for none.
SendOutcomes ==
    {o \in [1..Len(ChatIDs) -> SendResults] :
        (\E i \in 1..Len(ChatIDs) : o[i] = "reqErr")
            => (\A i \in 1..Len(ChatIDs) : o[i] = "reqErr")}

\* a fresh iteration record
\*   refresh, stats, notify: calls made; wasExpired, held: what the expiry
\*   check found; saved: the credential the loop wrote to the file;
\*   outcome: how the iteration ended; slept: the sleep that began it;
\*   start: latestCount when it began; first, got, prevCnt: whether its
\*   fetch was the first successful one, what it returned, and what the
\*   previous successful one had returned; attempted: chat ids tried;
\*   posted: the subscriber_count of each webhook POST made
NewTick == [refresh |-> 0, stats |-> 0, notify |-> 0, saved |-> Nil,
            wasExpired |-> FALSE, held |-> Nil, outcome |-> "none",
            slept |-> 0, start |-> 0, first |-> FALSE, got |-> 0,
            prevCnt |-> 0, attempted |-> <<>>, posted |-> <<>>]

\* has/cnt: the most recent successful fetch; prev: how the previous
\* iteration ended
NewHist == [has |-> FALSE, cnt |-> 0, prev |-> "none"]

\* how an iteration ended, as the next one remembers it
Class(outcome) ==
    IF outcome \in {"fetcherr", "noitems"} THEN "fetchfail"
    ELSE IF outcome = "refreshfail" THEN "refreshfail"
    ELSE "other"

\* the issued credentials some variable still refers to
Live(tk, ct) == {tk.id} \cup {ct[h].id : h \in Handlers}

\* init(): panics unless each field it tests is non-empty
initOK(c) == CheckedFields \subseteq c.has

Init ==
    /\ alive = TRUE
    /\ config \in [SleepTime : SleepTimes, has : {Fields}]
    /\ file \in {Absent, Junk, Tok(1)}
    /\ token = loadToken(file)
    /\ nextId = IF file.k = "tok" THEN 1 ELSE 0
    /\ expired = {}
    /\ tokenMutex = "free"
    /\ latestCount = 0
    /\ latestCountMutex = "free"
    /\ pc = "sleep"
    /\ sleepTime = EffectiveSleep(config.SleepTime)
    /\ client = Nil
    /\ subscriberCount = 0
    /\ cpc = [h \in Handlers |-> "idle"]
    /\ creq = [h \in Handlers |-> ""]
    /\ ctok = [h \in Handlers |-> Nil]
    /\ resp = [h \in Handlers |-> 0]
    /\ tick = NewTick
    /\ hist = NewHist

\* ---- saveToken, shared by the loop and the callback ----------------------

\* os.Create: truncates the file, or log.Fatalf ends the process
saveTokenCreate(ok) ==
    IF ok THEN file' = Truncated /\ alive' = alive
    ELSE file' = file /\ alive' = FALSE

\* json.NewEncoder(file).Encode(tok); the code discards Encode's result, so
\* there is no branch on it
saveTokenEncode(tok) == file' = tok

\* ---- monitorSubscriberCount ------------------------------------------------

\* the iteration's record once it has ended: its locals are out of scope
EndTick(t, how) == [t EXCEPT !.outcome = how, !.held = Nil, !.saved = Nil]

Sleep ==
    /\ alive /\ pc = "sleep"
    /\ pc' = "lock"
    /\ tick' = [NewTick EXCEPT !.slept = Slept(sleepTime), !.start = latestCount]
    /\ hist' = [hist EXCEPT !.prev = Class(tick.outcome)]
    /\ UNCHANGED <<prog, sleepTime, client, subscriberCount, hand>>

PollLock ==
    /\ alive /\ pc = "lock"
    /\ tokenMutex = "free"
    /\ tokenMutex' = "poll"
    /\ pc' = "check"
    /\ UNCHANGED <<alive, config, token, latestCount, latestCountMutex, file,
                   nextId, expired, sleepTime, client, subscriberCount, hand,
                   tick, hist>>

\* PollCheck with the Unlock of the no-credential path left out
PollCheckNoUnlock ==
    /\ alive /\ pc = "check"
    /\ IF token = Nil
       THEN /\ pc' = "sleep"
            /\ tick' = EndTick(tick, "nocred")
            /\ client' = client
            /\ tokenMutex' = tokenMutex
       ELSE IF NeedsRefresh(token)
       THEN /\ tokenMutex' = tokenMutex
            /\ pc' = "refresh"
            /\ tick' = [tick EXCEPT !.wasExpired = Expired(token), !.held = token]
            /\ client' = client
       ELSE /\ tokenMutex' = "free"
            /\ pc' = "fetch"
            /\ tick' = [tick EXCEPT !.wasExpired = Expired(token), !.held = token]
            /\ client' = token
    /\ UNCHANGED <<alive, config, token, latestCount, latestCountMutex, file,
                   nextId, expired, sleepTime, subscriberCount, hand, hist>>

PollCheck ==
    /\ alive /\ pc = "check"
    /\ IF token = Nil
       THEN /\ tokenMutex' = "free"
            /\ pc' = "sleep"
            /\ tick' = EndTick(tick, "nocred")
            /\ client' = client
       ELSE IF NeedsRefresh(token)
       THEN /\ tokenMutex' = tokenMutex
            /\ pc' = "refresh"
            /\ tick' = [tick EXCEPT !.wasExpired = Expired(token), !.held = token]
            /\ client' = client
       ELSE /\ tokenMutex' = "free"
            /\ pc' = "fetch"
            /\ tick' = [tick EXCEPT !.wasExpired = Expired(token), !.held = token]
            /\ client' = token
    /\ UNCHANGED <<alive, config, token, latestCount, latestCountMutex, file,
                   nextId, expired, sleepTime, subscriberCount, hand, hist>>

\* PollRefresh assigning the call's result to token before looking at err
PollRefreshAssignsFirst(ok) ==
    /\ alive /\ pc = "refresh"
    /\ ok => (token.k = "tok" /\ nextId < MaxTok)
    /\ IF ok
       THEN /\ token' = Tok(nextId + 1)
            /\ nextId' = nextId + 1
            /\ tokenMutex' = tokenMutex
            /\ pc' = "save_create"
            /\ tick' = [tick EXCEPT !.refresh = @ + 1]
       ELSE /\ token' = Nil
            /\ nextId' = nextId
            /\ tokenMutex' = "free"
            /\ pc' = "sleep"
            /\ tick' = EndTick([tick EXCEPT !.refresh = @ + 1], "refreshfail")
    /\ expired' = expired \cap Live(token', ctok)
    /\ UNCHANGED <<alive, config, latestCount, latestCountMutex, file,
                   sleepTime, client, subscriberCount, hand, hist>>

\* oauthConfig.TokenSource(ctx, token).Token(): the zero token has no
\* refresh token, so its refresh always fails
PollRefresh(ok) ==
    /\ alive /\ pc = "refresh"
    /\ ok => (token.k = "tok" /\ nextId < MaxTok)
    /\ IF ok
       THEN /\ token' = Tok(nextId + 1)
            /\ nextId' = nextId + 1
            /\ tokenMutex' = tokenMutex
            /\ pc' = "save_create"
            /\ tick' = [tick EXCEPT !.refresh = @ + 1]
       ELSE /\ token' = token
            /\ nextId' = nextId
            /\ tokenMutex' = "free"
            /\ pc' = "sleep"
            /\ tick' = EndTick([tick EXCEPT !.refresh = @ + 1], "refreshfail")
    /\ expired' = expired \cap Live(token', ctok)
    /\ UNCHANGED <<alive, config, latestCount, latestCountMutex, file,
                   sleepTime, client, subscriberCount, hand, hist>>

PollSaveCreate(ok) ==
    /\ alive /\ pc = "save_create"
    /\ saveTokenCreate(ok)
    /\ pc' = IF ok THEN "save_encode" ELSE pc
    /\ UNCHANGED <<config, token, tokenMutex, latestCount, latestCountMutex,
                   nextId, expired, sleepTime, client, subscriberCount, hand,
                   tick, hist>>

PollSaveEncode ==
    /\ alive /\ pc = "save_encode"
    /\ saveTokenEncode(token)
    /\ pc' = "client"
    /\ tick' = [tick EXCEPT !.saved = token]
    /\ UNCHANGED <<alive, config, token, tokenMutex, latestCount,
                   latestCountMutex, nextId, expired, sleepTime, client,
                   subscriberCount, hand, hist>>

\* PollClient with the Unlock after building the client left out
PollClientNoUnlock ==
    /\ alive /\ pc = "client"
    /\ client' = token
    /\ tokenMutex' = tokenMutex
    /\ pc' = "fetch"
    /\ UNCHANGED <<alive, config, token, latestCount, latestCountMutex, file,
                   nextId, expired, sleepTime, subscriberCount, hand, tick,
                   hist>>

PollClient ==
    /\ alive /\ pc = "client"
    /\ client' = token
    /\ tokenMutex' = "free"
    /\ pc' = "fetch"
    /\ UNCHANGED <<alive, config, token, latestCount, latestCountMutex, file,
                   nextId, expired, sleepTime, subscriberCount, hand, tick,
                   hist>>

\* PollFetch ending the process (log.Fatalf) when call.Do returns an error
PollFetchFatal(res, c) ==
    /\ alive /\ pc = "fetch"
    /\ IF res = "ok"
       THEN /\ subscriberCount' = c
            /\ pc' = "count_lock"
            /\ tick' = [tick EXCEPT !.stats = @ + 1, !.held = Nil,
                                    !.saved = Nil, !.first = ~hist.has,
                                    !.got = c, !.prevCnt = hist.cnt]
       ELSE /\ subscriberCount' = subscriberCount
            /\ c = 0
            /\ pc' = "sleep"
            /\ tick' = EndTick([tick EXCEPT
                          !.stats = IF res = "svcerr" THEN @ ELSE @ + 1], res)
    /\ alive' = (res # "fetcherr")
    /\ client' = Nil
    /\ UNCHANGED <<config, token, tokenMutex, latestCount, latestCountMutex,
                   file, nextId, expired, sleepTime, hand, hist>>

\* youtube.New, call.Do and the len(response.Items) check
PollFetch(res, c) ==
    /\ alive /\ pc = "fetch"
    /\ IF res = "ok"
       THEN /\ subscriberCount' = c
            /\ pc' = "count_lock"
            /\ tick' = [tick EXCEPT !.stats = @ + 1, !.held = Nil,
                                    !.saved = Nil, !.first = ~hist.has,
                                    !.got = c, !.prevCnt = hist.cnt]
       ELSE /\ subscriberCount' = subscriberCount
            /\ c = 0
            /\ pc' = "sleep"
            /\ tick' = EndTick([tick EXCEPT
                          !.stats = IF res = "svcerr" THEN @ ELSE @ + 1], res)
    /\ client' = Nil
    /\ UNCHANGED <<prog, sleepTime, hand, hist>>

PollCountLock ==
    /\ alive /\ pc = "count_lock"
    /\ latestCountMutex = "free"
    /\ latestCountMutex' = "poll"
    /\ pc' = "compare"
    /\ UNCHANGED <<alive, config, token, tokenMutex, latestCount, file, nextId,
                   expired, sleepTime, client, subscriberCount, hand, tick, hist>>

\* The call of sendWebhookNotification is commented out in the source, so
\* only sendTelegramNotification runs and tick.posted stays empty.
PollCompare(outs) ==
    /\ alive /\ pc = "compare"
    /\ IF Differs(subscriberCount, latestCount)
       THEN /\ latestCount' = subscriberCount
            /\ tick' = [tick EXCEPT !.notify = @ + 1, !.outcome = "changed",
                                    !.attempted = sendTelegramNotification(outs)]
       ELSE /\ latestCount' = latestCount
            /\ outs = [i \in 1..Len(ChatIDs) |-> "ok"]
            /\ tick' = [tick EXCEPT !.outcome = "same"]
    /\ hist' = [hist EXCEPT !.has = TRUE, !.cnt = subscriberCount]
    /\ latestCountMutex' = "free"
    /\ pc' = "sleep"
    /\ subscriberCount' = 0
    /\ UNCHANGED <<alive, config, token, tokenMutex, file, nextId, expired,
                   sleepTime, client, hand>>

\* ---- handleOAuth2Callback ---------------------------------------------------

CbReceive(h, st) ==
    /\ alive /\ cpc[h] = "idle"
    /\ creq' = [creq EXCEPT ![h] = st]
    /\ ctok' = [ctok EXCEPT ![h] = Nil]
    /\ IF StateMismatch(st)
       THEN /\ resp' = [resp EXCEPT ![h] = 400]
            /\ cpc' = cpc
       ELSE /\ resp' = [resp EXCEPT ![h] = 0]
            /\ cpc' = [cpc EXCEPT ![h] = "exchange"]
    /\ expired' = expired \cap Live(token, ctok')
    /\ UNCHANGED <<alive, config, token, tokenMutex, latestCount,
                   latestCountMutex, file, nextId, loop, tick, hist>>

\* CbExchange with the return after the 500 response left out
CbExchangeNoReturn(h, ok) ==
    /\ alive /\ cpc[h] = "exchange"
    /\ ok => nextId < MaxTok
    /\ IF ok
       THEN /\ ctok' = [ctok EXCEPT ![h] = Tok(nextId + 1)]
            /\ nextId' = nextId + 1
            /\ resp' = resp
       ELSE /\ ctok' = ctok
            /\ nextId' = nextId
            /\ resp' = [resp EXCEPT ![h] = 500]
    /\ cpc' = [cpc EXCEPT ![h] = "save_create"]
    /\ UNCHANGED <<alive, config, token, tokenMutex, latestCount,
                   latestCountMutex, file, expired, loop, creq, tick, hist>>

\* oauthConfig.Exchange(ctx, code)
CbExchange(h, ok) ==
    /\ alive /\ cpc[h] = "exchange"
    /\ ok => nextId < MaxTok
    /\ IF ok
       THEN /\ ctok' = [ctok EXCEPT ![h] = Tok(nextId + 1)]
            /\ nextId' = nextId + 1
            /\ resp' = resp
            /\ cpc' = [cpc EXCEPT ![h] = "save_create"]
       ELSE /\ ctok' = ctok
            /\ nextId' = nextId
            /\ resp' = [resp EXCEPT ![h] = 500]
            /\ cpc' = [cpc EXCEPT ![h] = "idle"]
    /\ UNCHANGED <<alive, config, token, tokenMutex, latestCount,
                   latestCountMutex, file, expired, loop, creq, tick, hist>>

CbSaveCreate(h, ok) ==
    /\ alive /\ cpc[h] = "save_create"
    /\ saveTokenCreate(ok)
    /\ cpc' = IF ok THEN [cpc EXCEPT ![h] = "save_encode"] ELSE cpc
    /\ UNCHANGED <<config, token, tokenMutex, latestCount, latestCountMutex,
                   nextId, expired, loop, creq, ctok, resp, tick, hist>>

CbSaveEncode(h) ==
    /\ alive /\ cpc[h] = "save_encode"
    /\ saveTokenEncode(ctok[h])
    /\ cpc' = [cpc EXCEPT ![h] = "lock"]
    /\ UNCHANGED <<alive, config, token, tokenMutex, latestCount,
                   latestCountMutex, nextId, expired, loop, creq, ctok, resp,
                   tick, hist>>

CbLock(h) ==
    /\ alive /\ cpc[h] = "lock"
    /\ tokenMutex = "free"
    /\ tokenMutex' = h
    /\ cpc' = [cpc EXCEPT ![h] = "store"]
    /\ UNCHANGED <<alive, config, token, latestCount, latestCountMutex, file,
                   nextId, expired, loop, creq, ctok, resp, tick, hist>>

\* token = tok; tokenMutex.Unlock(); the success page
CbStore(h) ==
    /\ alive /\ cpc[h] = "store"
    /\ token' = ctok[h]
    /\ tokenMutex' = "free"
    /\ resp' = [resp EXCEPT ![h] = 200]
    /\ cpc' = [cpc EXCEPT ![h] = "idle"]
    /\ ctok' = [ctok EXCEPT ![h] = Nil]
    /\ expired' = expired \cap Live(token', ctok')
    /\ UNCHANGED <<alive, config, latestCount, latestCountMutex, file, nextId,
                   loop, creq, tick, hist>>

\* ---- the clock ------------------------------------------------------------

\* time passes the Expiry of an issued credential
Expire(n) ==
    /\ alive
    /\ n \in Live(token, ctok) \ {0} /\ n \notin expired
    /\ expired' = expired \cup {n}
    /\ UNCHANGED <<alive, config, token, tokenMutex, latestCount,
                   latestCountMutex, file, nextId, loop, hand, tick, hist>>

Next ==
    \/ Sleep
    \/ PollLock
    \/ PollCheck
    \/ \E ok \in BOOLEAN : PollRefresh(ok)
    \/ \E ok \in BOOLEAN : PollSaveCreate(ok)
    \/ PollSaveEncode
    \/ PollClient
    \/ \E res \in {"ok", "svcerr", "fetcherr", "noitems"}, c \in Counts :
           PollFetch(res, c)
    \/ PollCountLock
    \/ \E outs \in SendOutcomes : PollCompare(outs)
    \/ \E h \in Serving, st \in StateParams : CbReceive(h, st)
    \/ \E h \in Serving, ok \in BOOLEAN : CbExchange(h, ok)
    \/ \E h \in Serving, ok \in BOOLEAN : CbSaveCreate(h, ok)
    \/ \E h \in Serving : CbSaveEncode(h)
    \/ \E h \in Serving : CbLock(h)
    \/ \E h \in Serving : CbStore(h)
    \/ \E n \in 1..MaxTok : Expire(n)

Spec == Init /\ [][Next]_vars

\* ---- startup ----------------------------------------------------------------

\* the process before init() has run, over every set of fields config.yaml
\* may leave out
InitBoot ==
    /\ alive = TRUE
    /\ config \in [SleepTime : SleepTimes, has : SUBSET Fields]
    /\ file \in {Absent, Junk, Tok(1)}
    /\ token = Nil
    /\ nextId = IF file.k = "tok" THEN 1 ELSE 0
    /\ expired = {}
    /\ tokenMutex = "free"
    /\ latestCount = 0
    /\ latestCountMutex = "free"
    /\ pc = "boot"
    /\ sleepTime = 0
    /\ client = Nil
    /\ subscriberCount = 0
    /\ cpc = [h \in Handlers |-> "idle"]
    /\ creq = [h \in Handlers |-> ""]
    /\ ctok = [h \in Handlers |-> Nil]
    /\ resp = [h \in Handlers |-> 0]
    /\ tick = NewTick
    /\ hist = NewHist

\* init() and main up to the start of the server and of the loop
Boot ==
    /\ alive /\ pc = "boot"
    /\ IF initOK(config)
       THEN /\ alive' = alive
            /\ token' = loadToken(file)
            /\ sleepTime' = EffectiveSleep(config.SleepTime)
            /\ pc' = "sleep"
       ELSE /\ alive' = FALSE
            /\ UNCHANGED <<token, sleepTime, pc>>
    /\ UNCHANGED <<config, tokenMutex, latestCount, latestCountMutex, file,
                   nextId, expired, client, subscriberCount, hand, tick, hist>>

NextBoot == Boot

SpecBoot == InitBoot /\ [][NextBoot]_vars

\* ---- claims -------------------------------------------------------------

\* an iteration of the loop has just ended
TickEnded == pc = "sleep" /\ tick.outcome # "none"

\* the iteration fetched a count
Fetched == tick.outcome \in {"same", "changed"}

\* C1: at the end of every tick the notifier has been invoked if and only if
\* the tick fetched a count and that count differs from the count of the most
\* recent earlier successful fetch (a first fetch has none to equal).
C1_NotifyIffChanged ==
    TickEnded =>
        (tick.notify = 1 <=>
            (Fetched /\ (tick.first \/ tick.got # tick.prevCnt)))

\* C2: the first successful fetch after startup has invoked the notifier
\* exactly once by the end of its tick, whatever count it returned.
C2_FirstFetchNotifies ==
    (TickEnded /\ Fetched /\ tick.first) => tick.notify = 1

\* C3: when the expiry check finds the credential expired, the tick makes
\* one refresh attempt before any statistics call; a successful refresh has
\* replaced the held credential and written the new one to the file by the
\* time the credential lock is released, and the statistics call uses the
\* refreshed credential, never the one found expired.
C3_RefreshBeforeUse ==
    /\ tick.refresh <= 1
    /\ tick.wasExpired =>
        /\ pc # "refresh" => tick.refresh = 1
        /\ tick.stats > 0 => tick.refresh = 1
        /\ pc \in {"save_create", "save_encode", "client"} =>
              /\ tokenMutex = "poll"
              /\ token # tick.held /\ token.k = "tok"
              /\ tick.stats = 0
        /\ pc = "client" => tick.saved = token
        /\ pc = "fetch" =>
              /\ tick.saved = client
              /\ client # tick.held /\ client.k = "tok"
              /\ tokenMutex # "poll"

\* C3 witness: an expired credential was refreshed and saved, the lock is
\* released and the statistics call is about to use the new credential.
C3_Witness ==
    /\ pc = "fetch" /\ tick.wasExpired /\ tick.refresh = 1
    /\ tick.held.k = "tok" /\ tick.saved = client /\ tokenMutex = "free"

\* the step is one of handler h's
Moved(h) == <<cpc[h], creq[h], ctok[h], resp[h]>>' # <<cpc[h], creq[h], ctok[h], resp[h]>>

\* C4: a callback request whose state parameter is not the expected one is
\* answered 400 in the step that receives it; that step changes neither the
\* held credential nor the file, and the request never reaches the token
\* exchange, whatever the polling loop is doing.
C4_BadStateRejected ==
    [][\A h \in Handlers :
          /\ (Moved(h) /\ cpc[h] = "idle" /\ creq'[h] # state) =>
                /\ resp'[h] = 400
                /\ token' = token /\ file' = file /\ nextId' = nextId
          /\ (creq'[h] # state) =>
                (cpc'[h] = "idle" /\ ctok'[h] = Nil /\ resp'[h] \in {0, 400})
      ]_vars

\* C4 witness: a forged request has been answered 400 while the loop holds
\* the credential lock and a credential is held.
C4_Witness ==
    \E h \in Handlers :
        /\ creq[h] = "forged" /\ resp[h] = 400
        /\ tokenMutex = "poll" /\ token.k = "tok"

\* C5: a callback request with the expected state whose code exchange fails
\* is answered 500 and ends there: the step changes neither the held
\* credential nor the file, and the handler takes no further step.
C5_ExchangeFailureKeepsCredential ==
    [][\A h \in Handlers :
          (Moved(h) /\ resp'[h] = 500) =>
              /\ creq[h] = state /\ cpc[h] = "exchange" /\ cpc'[h] = "idle"
              /\ token' = token /\ file' = file
      ]_vars

\* C5 witness: an exchange failed while a credential was held and stored.
C5_Witness ==
    \E h \in Handlers :
        /\ resp[h] = 500 /\ cpc[h] = "idle"
        /\ token.k = "tok" /\ file = token

\* C6: the step in which a refresh fails leaves the held credential and the
\* file as they were, releases the credential lock and ends the tick with no
\* statistics call and no notification; the tick after it, finding the
\* credential expired again, makes a refresh attempt of its own.
C6_RefreshFailureSkipsTick ==
    [][/\ (pc = "refresh" /\ tick'.outcome = "refreshfail") =>
              /\ token' = token /\ file' = file
              /\ tokenMutex = "poll" /\ tokenMutex' = "free"
              /\ pc' = "sleep" /\ alive'
              /\ tick'.refresh = 1 /\ tick'.stats = 0 /\ tick'.notify = 0
              /\ Expired(token)'
       /\ (hist'.prev = "refreshfail" /\ tick'.wasExpired /\ pc' # "refresh") =>
              tick'.refresh = 1
      ]_vars

\* C6 witness: two ticks in a row ended in a failed refresh of a credential
\* the provider had issued.
C6_Witness ==
    /\ TickEnded /\ tick.outcome = "refreshfail" /\ hist.prev = "refreshfail"
    /\ tick.refresh = 1 /\ token.k = "tok" /\ tokenMutex = "free"

\* C7: a tick that finds no credential held ends with no refresh call, no
\* statistics call and no notification, the stored count as it was when the
\* tick began, and the credential lock released by the loop.
C7_NoCredentialSkipsTick ==
    (TickEnded /\ tick.outcome = "nocred") =>
        /\ tick.refresh = 0 /\ tick.stats = 0 /\ tick.notify = 0
        /\ latestCount = tick.start
        /\ tokenMutex # "poll"
        /\ client = Nil

\* C7 witness: a tick found no credential while a callback was on its way to
\* storing one.
C7_Witness ==
    /\ TickEnded /\ tick.outcome = "nocred" /\ token = Nil
    /\ \E h \in Handlers : cpc[h] = "lock"

\* C8: a tick whose statistics call fails or returns no items ends with the
\* stored count as it was and no notification; and a successful fetch in the
\* tick after such a failure notifies exactly when its count differs from
\* the count of the last successful fetch before the failure.
C8_FetchFailureKeepsCount ==
    /\ (TickEnded /\ tick.outcome \in {"svcerr", "fetcherr", "noitems"}) =>
          /\ latestCount = tick.start
          /\ tick.notify = 0
          /\ hist.has => latestCount = hist.cnt
    /\ (TickEnded /\ Fetched /\ hist.prev = "fetchfail" /\ ~tick.first) =>
          /\ tick.notify = (IF tick.got # tick.prevCnt THEN 1 ELSE 0)
          /\ latestCount = tick.got

\* C8 witness: after a tick that failed to fetch, the next tick fetched a
\* count different from the last successfully fetched one and notified.
C8_Witness ==
    /\ TickEnded /\ tick.outcome = "changed" /\ hist.prev = "fetchfail"
    /\ ~tick.first /\ tick.got # tick.prevCnt /\ tick.notify = 1

\* C9: whenever the notifier has run, every configured chat id has been
\* attempted, whatever the result of the sends before it.
C9_EveryChatAttempted ==
    (TickEnded /\ tick.notify = 1) => tick.attempted = ChatIDs

\* the outcomes that end a tick
Outcomes == {"nocred", "refreshfail", "svcerr", "fetcherr", "noitems", "same",
             "changed"}

\* C10 as stated: no runtime error ends the process, and after every
\* failure the loop is back at its sleep.
C10_NoErrorEndsProcess ==
    /\ alive
    /\ tick.outcome \in Outcomes => pc = "sleep"

\* C10 amended: the only step that ends the process is a failed os.Create
\* in saveToken (in the loop's refresh path or in a callback); every other
\* failure (refresh, statistics call, empty result, notification delivery)
\* ends the tick with the process alive, both locks released by the loop and
\* the loop at its sleep.
C10_OnlySaveFailureIsFatal ==
    [][/\ (alive /\ ~alive') =>
              /\ pc = "save_create" \/ \E h \in Handlers : cpc[h] = "save_create"
              /\ file' = file
       /\ (tick.outcome = "none" /\ tick'.outcome \in Outcomes) =>
              /\ alive'
              /\ pc' = "sleep"
              /\ tokenMutex' # "poll" /\ latestCountMutex' = "free"
      ]_vars

\* C10 witness: the process is alive and the loop asleep after a tick whose
\* statistics call failed, itself following a tick whose refresh failed.
C10_Witness ==
    /\ alive /\ TickEnded /\ tick.outcome = "fetcherr"
    /\ hist.prev = "refreshfail"

\* C11: every detected change produces exactly one webhook POST carrying the
\* new count, and a tick that detects no change produces none (so polls
\* returning 100, 100, 101 give one POST, none, one POST).
C11_ChangePostsWebhook ==
    TickEnded =>
        tick.posted = (IF tick.outcome = "changed"
                       THEN sendWebhookNotification(tick.got) ELSE <<>>)

\* C12: while the statistics call is outstanding the loop still holds the
\* credential lock, so the held credential is the one the call is using.
C12_CallUnderLock ==
    pc = "fetch" => (tokenMutex = "poll" /\ token = client)

\* C13: as long as no provider-issued credential is held (the file was absent
\* or unparsable at startup and no callback has stored one), no credential
\* at all is held and every tick that ends has taken the no-credential path,
\* with no refresh attempt and no statistics call.
C13_NoCredentialUntilCallback ==
    (TickEnded /\ token.k # "tok") =>
        /\ token = Nil
        /\ tick.outcome = "nocred"
        /\ tick.refresh = 0 /\ tick.stats = 0

\* C14: the loop's interval is DefaultSleep for a sleep_time that is unset,
\* zero or negative and the configured value otherwise, and every sleep that
\* has begun a tick lasted that positive interval.
C14_SleepIsPositive ==
    pc # "sleep" =>
        /\ sleepTime = (IF config.SleepTime <= 0 THEN DefaultSleep
                        ELSE config.SleepTime)
        /\ tick.slept = sleepTime /\ tick.slept > 0

\* no callback request and no refresh of the loop is under way
Quiet ==
    /\ alive
    /\ \A h \in Handlers : cpc[h] = "idle"
    /\ pc \notin {"refresh", "save_create", "save_encode", "client"}

\* the executions of saveToken that have created the file and not yet
\* written it
Saving ==
    {h \in Handlers : cpc[h] = "save_encode"}
        \cup (IF pc = "save_encode" THEN {"poll"} ELSE {})

\* C15: whenever no callback and no refresh is in progress and a
\* provider-issued credential is held, the file holds that same credential.
C15_MemoryMatchesFile ==
    (Quiet /\ token.k = "tok") => file = token

\* C16: at no time are two executions of saveToken in progress at once.
C16_SavesExclusive ==
    Cardinality(Saving) <= 1

\* C17: the loop never holds the credential lock and the count lock together;
\* it holds the credential lock only between taking it and building the
\* client, and the count lock only for the comparison; whenever it is at its
\* sleep, whatever path the tick took, it holds neither.
C17_LocksReleased ==
    /\ ~(tokenMutex = "poll" /\ latestCountMutex = "poll")
    /\ tokenMutex = "poll" <=>
          pc \in {"check", "refresh", "save_create", "save_encode", "client"}
    /\ latestCountMutex = "poll" <=> pc = "compare"
    /\ pc = "sleep" => (tokenMutex # "poll" /\ latestCountMutex = "free")

\* C17 witness: a tick that refreshed the credential (taking the credential
\* lock) and then detected a change (taking the count lock) has ended with
\* both released, while a callback waits for the credential lock.
C17_Witness ==
    /\ TickEnded /\ tick.outcome = "changed" /\ tick.refresh = 1
    /\ tokenMutex = "free" /\ latestCountMutex = "free"
    /\ \E h \in Handlers : cpc[h] = "lock"

\* C18: a tick makes at most one statistics call and at most one notifier
\* invocation, and the sleep that began it lasted a full, positive interval,
\* so that no statistics call and no retry follows the previous tick at once.
C18_OneSleepPerTick ==
    /\ tick.stats <= 1 /\ tick.notify <= 1
    /\ pc # "sleep" => tick.slept > 0
    /\ (tick.stats > 0 \/ tick.outcome # "none") => tick.slept > 0

\* the server and the polling loop have been started
Started == alive /\ pc # "boot"

\* C19: with any one of the required fields missing from config.yaml the
\* process does not start.
C19_MissingFieldIsFatal ==
    \A f \in Fields : config.has = Fields \ {f} => ~Started

====
